---- MODULE Spec2Model ----
(***************************************************************************)
(* Content-safety gating of auto_demo.py and manual_demo.py: the two       *)
(* screens (RegexBanList, LLMSafety), the guard built from a list of       *)
(* validator names, apply_guard with the "filter" on-fail policy, and the  *)
(* exchange loops run_demo (auto_demo.py) and interactive_demo             *)
(* (manual_demo.py).                                                       *)
(*                                                                         *)
(* A text is a sequence of one-character strings, so that lower(),         *)
(* upper(), strip(), split(), substring search and the \b-anchored regular *)
(* expressions are computed character by character.                        *)
(***************************************************************************)
EXTENDS Naturals, Sequences, FiniteSets

(***************************************************************************)
(* Bounds of the model.                                                    *)
(***************************************************************************)
\* texts handed to a screen directly are concatenations of at most this many pieces
MaxTextPieces == 2
\* a requested validator list names at most this many validators
MaxScreens == 2

(***************************************************************************)
(* Characters and Python's str methods.                                    *)
(***************************************************************************)
Lowers == <<"a", "c", "d", "e", "f", "g", "i", "k", "m", "n", "o", "s", "t", "u", "w", "y">>
Uppers == <<"A", "C", "D", "E", "F", "G", "I", "K", "M", "N", "O", "S", "T", "U", "W", "Y">>

LetterIndex(alphabet, c) ==
    IF \E i \in DOMAIN alphabet : alphabet[i] = c
    THEN CHOOSE i \in DOMAIN alphabet : alphabet[i] = c
    ELSE 0

\* str.lower() and str.upper(), one character
LowerChar(c) == IF LetterIndex(Uppers, c) # 0 THEN Lowers[LetterIndex(Uppers, c)] ELSE c
UpperChar(c) == IF LetterIndex(Lowers, c) # 0 THEN Uppers[LetterIndex(Lowers, c)] ELSE c

lower(text) == [i \in DOMAIN text |-> LowerChar(text[i])]
upper(text) == [i \in DOMAIN text |-> UpperChar(text[i])]

IsSpace(c) == c = " "
\* \w of the re module: a letter (the alphabet has no digit and no underscore)
IsWordChar(c) == LetterIndex(Lowers, c) # 0 \/ LetterIndex(Uppers, c) # 0

\* str.strip(): drop the leading and the trailing whitespace
RECURSIVE lstrip(_)
lstrip(text) ==
    IF text # <<>> /\ IsSpace(Head(text)) THEN lstrip(Tail(text)) ELSE text

RECURSIVE rstrip(_)
rstrip(text) ==
    IF text # <<>> /\ IsSpace(text[Len(text)])
    THEN rstrip(SubSeq(text, 1, Len(text) - 1))
    ELSE text

strip(text) == rstrip(lstrip(text))

\* the first whitespace-delimited run of a text that starts with a non-space
RECURSIVE TakeToken(_)
TakeToken(text) ==
    IF text = <<>> \/ IsSpace(Head(text)) THEN <<>>
    ELSE <<Head(text)>> \o TakeToken(Tail(text))

\* str.split(): the sequence of whitespace-delimited tokens
RECURSIVE split(_)
split(text) ==
    LET t == lstrip(text) IN
    IF t = <<>> THEN <<>>
    ELSE LET tok == TakeToken(t) IN
         <<tok>> \o split(SubSeq(t, Len(tok) + 1, Len(t)))

\* `word in text`: word occurs in text as a contiguous substring
Contains(text, word) ==
    \E i \in 1..(Len(text) + 1) :
        /\ i + Len(word) - 1 <= Len(text)
        /\ SubSeq(text, i, i + Len(word) - 1) = word

(***************************************************************************)
(* The re module, for the two compiled patterns \bcat[s]?\b and            *)
(* \bkitten[s]?\b under re.IGNORECASE.                                     *)
(***************************************************************************)
WordAt(text, p) == p >= 1 /\ p <= Len(text) /\ IsWordChar(text[p])

\* \b between position p-1 and position p
Boundary(text, p) == WordAt(text, p - 1) # WordAt(text, p)

\* the literal stem matches at position i, ignoring case
StemAt(text, i, stem) ==
    /\ i + Len(stem) - 1 <= Len(text)
    /\ \A j \in 1..Len(stem) : LowerChar(text[i + j - 1]) = LowerChar(stem[j])

\* the pattern without its closing \b: \b<stem>[s]?
pattern_search_open_end(stem, value) ==
    \E i \in 1..Len(value) : Boundary(value, i) /\ StemAt(value, i, stem)

\* pattern.search(value) for the pattern \b<stem>[s]?\b
pattern_search(stem, value) ==
    \E i \in 1..Len(value) :
        /\ Boundary(value, i)
        /\ StemAt(value, i, stem)
        /\ LET e == i + Len(stem) IN
           \/ Boundary(value, e)
           \/ /\ e <= Len(value)
              /\ LowerChar(value[e]) = "s"
              /\ Boundary(value, e + 1)

(***************************************************************************)
(* Texts.                                                                  *)
(***************************************************************************)
Cat == <<"c", "a", "t">>
CatCapital == <<"C", "a", "t">>
Kitten == <<"k", "i", "t", "t", "e", "n">>
Kitty == <<"k", "i", "t", "t", "y">>
MeowUpper == <<"M", "E", "O", "W">>
Dog == <<"d", "o", "g">>
Space == <<" ">>
LetterS == <<"s">>
Empty == <<>>

RECURSIVE Concatenations(_, _)
Concatenations(pieces, n) ==
    IF n = 0 THEN {Empty}
    ELSE LET shorter == Concatenations(pieces, n - 1) IN
         shorter \cup {t \o p : t \in shorter, p \in pieces}

\* the texts a screen is evaluated on directly
ScreenPieces == {Cat, CatCapital, Kitten, Kitty, MeowUpper, Dog, Space, LetterS}
ScreenTexts == Concatenations(ScreenPieces, MaxTextPieces)

\* the prompts a user enters and the responses a model (or the operator who
\* simulates it) gives: empty, blank, passing, failing the pattern screen,
\* and padded with whitespace
SampleTexts == {Empty, Space, Dog, Cat, Dog \o Space \o Cat, Space \o Dog}

SAFE == <<"S", "A", "F", "E">>
UNSAFE == <<"U", "N", "S", "A", "F", "E">>

(***************************************************************************)
(* ollama.generate: the outcome of one call is a reply carrying a          *)
(* "response" string, a reply without that key, or an exception.           *)
(***************************************************************************)
Reply(text) == [kind |-> "ok", response |-> text]
NoResponseKey == [kind |-> "no_response_key", response |-> Empty]
OllamaRaises == [kind |-> "raise", response |-> Empty]
\* placeholder at the position of a screen that makes no call
NoCall == [kind |-> "no_call", response |-> Empty]

\* what the model may answer to the classification prompt
ClassifierReplies ==
    {Empty, Space, SAFE, UNSAFE, Space \o lower(SAFE), SAFE \o Space \o Dog}
ClassifierOutcomes == {Reply(t) : t \in ClassifierReplies} \cup {NoResponseKey, OllamaRaises}

\* what the model may answer to a prompt
GenerationOutcomes == {Reply(t) : t \in SampleTexts} \cup {NoResponseKey, OllamaRaises}

Programs == {"auto_demo", "manual_demo"}

\* the result of a call: raised is TRUE when an exception left the function
Returned(v) == [raised |-> FALSE, value |-> v]
RaisedOut(v) == [raised |-> TRUE, value |-> v]

\* response.get("response", "")
response_get(outcome) == IF outcome.kind = "ok" THEN outcome.response ELSE Empty

\* call_local_llm(prompt): auto_demo.py lets the exception of ollama.generate
\* through and returns the response as is; manual_demo.py catches it, returns ""
\* and strips the response
call_local_llm(prog, outcome) ==
    IF prog = "auto_demo"
    THEN IF outcome.kind = "raise" THEN RaisedOut(Empty)
         ELSE Returned(response_get(outcome))
    ELSE IF outcome.kind = "raise" THEN Returned(Empty)
         ELSE Returned(strip(response_get(outcome)))

(***************************************************************************)
(* The screens.                                                            *)
(***************************************************************************)
PassResult == [result |-> "pass", message |-> "", word |-> Empty]
FailResult(msg, w) == [result |-> "fail", message |-> msg, word |-> w]
\* the screen did not return: an exception left _validate
Raises == [result |-> "raise", message |-> "", word |-> Empty]

banned_words == <<Kitty, lower(MeowUpper)>>
\* the stems of the patterns \bcat[s]?\b and \bkitten[s]?\b
compiled_patterns == <<Cat, Kitten>>

\* the loop over self.banned_words, from index i on
RECURSIVE banned_word_loop(_, _)
banned_word_loop(text_lower, i) ==
    IF i > Len(banned_words) THEN Empty
    ELSE IF Contains(text_lower, lower(banned_words[i])) THEN banned_words[i]
    ELSE banned_word_loop(text_lower, i + 1)

\* RegexBanList._validate(value, metadata)
RegexBanList_validate(value) ==
    LET text_lower == lower(value)
        word == banned_word_loop(text_lower, 1)
    IN  IF word # Empty
        THEN FailResult("Text contains banned word", word)
        ELSE IF \E k \in DOMAIN compiled_patterns : pattern_search(compiled_patterns[k], value)
        THEN FailResult("Text matched banned regex pattern.", Empty)
        ELSE PassResult

\* some_list[0]: IndexError on the empty list
FirstOf(tokens) == IF tokens = <<>> THEN RaisedOut(Empty) ELSE Returned(tokens[1])

\* LLMSafety.classify(text), given the outcome of its call to the model
LLMSafety_classify(prog, outcome) ==
    LET called == call_local_llm(prog, outcome) IN
    IF called.raised THEN RaisedOut(FALSE)
    ELSE IF prog = "auto_demo"
    THEN LET first == FirstOf(split(strip(called.value))) IN
         IF first.raised THEN RaisedOut(FALSE)
         ELSE Returned(upper(first.value) = SAFE)
    ELSE LET label_raw == called.value IN
         IF label_raw = Empty THEN Returned(Empty = SAFE)
         ELSE LET first == FirstOf(split(strip(label_raw))) IN
              IF first.raised THEN RaisedOut(FALSE)
              ELSE Returned(upper(first.value) = SAFE)

\* LLMSafety._validate(value, metadata)
LLMSafety_validate(prog, outcome) ==
    LET is_safe == LLMSafety_classify(prog, outcome) IN
    IF is_safe.raised THEN Raises
    ELSE IF is_safe.value THEN PassResult
    ELSE FailResult("LLM classified content as UNSAFE.", Empty)

(***************************************************************************)
(* The guard: the validators of a gd.Guard, by rail alias, in order.       *)
(***************************************************************************)
ValidatorNames == {"regex", "llm", "toxicity"}
ValidatorTypeLists == UNION {[1..n -> ValidatorNames] : n \in 0..MaxScreens}

\* every name, "regex" included, builds an LLMSafety
RECURSIVE create_guard_all_llm(_, _)
create_guard_all_llm(prog, validator_types) ==
    IF validator_types = <<>> THEN <<>>
    ELSE <<"llm_safety">> \o create_guard_all_llm(prog, Tail(validator_types))

\* create_guard(validator_types): auto_demo.py builds an LLMSafety for every
\* name other than "regex"; manual_demo.py skips a name it does not know
RECURSIVE create_guard(_, _)
create_guard(prog, validator_types) ==
    IF validator_types = <<>> THEN <<>>
    ELSE LET v_type == Head(validator_types)
             rest == create_guard(prog, Tail(validator_types))
         IN  IF v_type = "regex" THEN <<"regex_banlist">> \o rest
             ELSE IF prog = "auto_demo" \/ v_type = "llm" THEN <<"llm_safety">> \o rest
             ELSE rest

\* the outcomes of the calls the validators of a guard make, by position
OutcomesFor(guard) ==
    {o \in [DOMAIN guard -> ClassifierOutcomes \cup {NoCall}] :
        \A i \in DOMAIN guard : (o[i] = NoCall) <=> (guard[i] = "regex_banlist")}

run_validator(prog, alias, value, outcome) ==
    IF alias = "regex_banlist" THEN RegexBanList_validate(value)
    ELSE LLMSafety_validate(prog, outcome)

\* guard.parse(llm_output=text) with on_fail="filter" on every validator.
\* An exception of a validator leaves parse.  Once a validator has failed the
\* value is filtered; whether the validators after it still run is left to the
\* library (run_all).  validated_output is None when filtered.
RECURSIVE Guard_parse(_, _, _, _, _, _, _)
Guard_parse(prog, guard, text, outcomes, run_all, i, filtered) ==
    IF i > Len(guard) \/ (filtered /\ ~run_all)
    THEN [raised |-> FALSE, filtered |-> filtered, validated_output |-> IF filtered THEN Empty ELSE text]
    ELSE LET res == run_validator(prog, guard[i], text, outcomes[i]) IN
         IF res.result = "raise"
         THEN [raised |-> TRUE, filtered |-> filtered, validated_output |-> Empty]
         ELSE Guard_parse(prog, guard, text, outcomes, run_all, i + 1,
                          filtered \/ res.result = "fail")

\* a guard that hands back the text it let through without its outer whitespace
apply_guard_stripping(prog, text, validator_types, outcomes, run_all) ==
    LET guard == create_guard(prog, validator_types)
        parsed == Guard_parse(prog, guard, text, outcomes, run_all, 1, FALSE)
    IN  IF parsed.raised
        THEN [raised |-> prog = "auto_demo", filtered |-> FALSE, value |-> strip(text)]
        ELSE [raised |-> FALSE, filtered |-> parsed.filtered,
              value |-> IF parsed.filtered THEN Empty ELSE strip(parsed.validated_output)]

\* apply_guard(text, validator_types): value is the string returned, filtered
\* tells that validated_output was None
apply_guard(prog, text, validator_types, outcomes, run_all) ==
    IF prog = "manual_demo" /\ text = Empty
    THEN [raised |-> FALSE, filtered |-> FALSE, value |-> Empty]
    ELSE LET guard == create_guard(prog, validator_types)
             parsed == Guard_parse(prog, guard, text, outcomes, run_all, 1, FALSE)
         IN  IF parsed.raised
             THEN IF prog = "auto_demo"
                  THEN [raised |-> TRUE, filtered |-> FALSE, value |-> Empty]
                  ELSE [raised |-> FALSE, filtered |-> FALSE, value |-> text]
             ELSE [raised |-> FALSE, filtered |-> parsed.filtered,
                   value |-> IF parsed.filtered THEN Empty ELSE parsed.validated_output]

(***************************************************************************)
(* The summary rows of a turn.                                             *)
(***************************************************************************)
\* the flag taken from the guarded prompt being empty
prompt_filtered_when_empty(prompt, after_guard) == after_guard = Empty

\* run_demo: prompt_filtered = prompt != prompt_to_use
run_demo_prompt_filtered(prompt, after_guard) == prompt # after_guard

\* run_demo: response_filtered = baseline_output != guarded_output
run_demo_response_filtered(baseline, guarded_output) == baseline # guarded_output

\* pretty_print_turn(...): the "Triggered" cells of the rows "Before LLM" and
\* "After LLM"
pretty_print_turn(original_prompt, prompt_after_guard, baseline, after_guard, before, after) ==
    LET filtered == IF after THEN after_guard # baseline ELSE FALSE IN
    [before_triggered |-> before /\ prompt_after_guard # original_prompt,
     after_triggered |-> after /\ filtered]

\* the answers of the three questionary.select menus; a menu left without a
\* choice gives both validators, no guard location, and the manual response
choose_validator_types == {<<"llm">>, <<"regex">>, <<"regex", "llm">>}
choose_guard_location == {<<TRUE, FALSE>>, <<FALSE, TRUE>>, <<TRUE, TRUE>>, <<FALSE, FALSE>>}
choose_response_mode == BOOLEAN

(***************************************************************************)
(* State.                                                                  *)
(***************************************************************************)
VARIABLES
    prog,               \* the script that runs: "auto_demo" or "manual_demo"
    pc,                 \* where the exchange stands, or where an exception left the script
    user_prompt,        \* the prompt of the turn, as entered
    validator_types,    \* the requested validators
    guard_before,       \* screen the prompt before generation
    guard_after,        \* screen the response after generation
    use_real_llm,       \* manual_demo: call the model, or let the operator answer
    prompt_to_use,      \* the prompt after the guard
    baseline_output,    \* the response as generated
    output_after_guard, \* the response after the guard
    prompt_filtered,    \* run_demo's local of that name
    response_filtered,  \* run_demo's local of that name
    triggered_before,   \* summary row "Before LLM", cell "Triggered"
    triggered_after,    \* summary row "After LLM", cell "Triggered"
    oracle_log,         \* the calls of the model for generation this turn: prompt and outcome
    filtered_before,    \* the guard on the prompt got validated_output None
    filtered_after,     \* the guard on the response got validated_output None
    fn                  \* the last direct call of a function and what it gave

exchange_vars == <<prog, pc, user_prompt, validator_types, guard_before, guard_after,
                   use_real_llm, prompt_to_use, baseline_output, output_after_guard,
                   prompt_filtered, response_filtered, triggered_before, triggered_after,
                   oracle_log, filtered_before, filtered_after>>
vars == <<exchange_vars, fn>>

NoResult == [raised |-> FALSE, filtered |-> FALSE, value |-> Empty]
NoCallYet ==
    [op |-> "none", prog |-> "auto_demo", text |-> Empty, validator_types |-> <<>>,
     outcomes |-> <<>>, guard |-> <<>>, verdict |-> PassResult,
     result |-> NoResult, again |-> NoResult]

\* the locals of a turn before its first statement
TurnStart(p) ==
    /\ user_prompt = p
    /\ prompt_to_use = p
    /\ baseline_output = Empty
    /\ output_after_guard = Empty
    /\ prompt_filtered = FALSE
    /\ response_filtered = FALSE
    /\ triggered_before = FALSE
    /\ triggered_after = FALSE
    /\ oracle_log = <<>>
    /\ filtered_before = FALSE
    /\ filtered_after = FALSE

\* run_demo(prompts, guard_before, guard_after, validator_types) is entered, or
\* interactive_demo() is
Init ==
    /\ prog \in Programs
    /\ pc = "LoopHead"
    /\ IF prog = "auto_demo"
       THEN /\ validator_types \in ValidatorTypeLists
            /\ guard_before \in BOOLEAN
            /\ guard_after \in BOOLEAN
       ELSE /\ validator_types = <<>>
            /\ guard_before = FALSE
            /\ guard_after = FALSE
    /\ use_real_llm = TRUE
    /\ TurnStart(Empty)
    /\ fn = NoCallYet

(***************************************************************************)
(* The exchange.                                                           *)
(***************************************************************************)
\* the head of the loop: the next prompt of the list (run_demo), or the prompt
\* and the three menu answers (interactive_demo)
ReadPrompt ==
    /\ pc \in {"LoopHead", "Done", "FilteredBeforeGeneration"}
    /\ \E p \in SampleTexts :
         /\ user_prompt' = p
         /\ prompt_to_use' = p
    /\ baseline_output' = Empty
    /\ output_after_guard' = Empty
    /\ prompt_filtered' = FALSE
    /\ response_filtered' = FALSE
    /\ triggered_before' = FALSE
    /\ triggered_after' = FALSE
    /\ oracle_log' = <<>>
    /\ filtered_before' = FALSE
    /\ filtered_after' = FALSE
    /\ IF prog = "auto_demo"
       THEN UNCHANGED <<validator_types, guard_before, guard_after, use_real_llm>>
       ELSE /\ validator_types' \in choose_validator_types
            /\ \E where \in choose_guard_location :
                 /\ guard_before' = where[1]
                 /\ guard_after' = where[2]
            /\ use_real_llm' \in choose_response_mode
    /\ pc' = "PromptReceived"
    /\ UNCHANGED <<prog, fn>>

\* the list of prompts is exhausted, or the user typed exit or aborted
Leave ==
    /\ pc \in {"LoopHead", "Done", "FilteredBeforeGeneration"}
    /\ pc' = "Exited"
    /\ UNCHANGED <<prog, user_prompt, validator_types, guard_before, guard_after,
                   use_real_llm, prompt_to_use, baseline_output, output_after_guard,
                   prompt_filtered, response_filtered, triggered_before, triggered_after,
                   oracle_log, filtered_before, filtered_after, fn>>

\* if guard_before: prompt_to_use = apply_guard(prompt, validator_types), and in
\* interactive_demo the turn ends here when nothing is left of the prompt
GuardBefore ==
    /\ pc = "PromptReceived"
    /\ guard_before
    /\ \E outcomes \in OutcomesFor(create_guard(prog, validator_types)), run_all \in BOOLEAN :
         LET r == apply_guard(prog, user_prompt, validator_types, outcomes, run_all) IN
         IF r.raised
         THEN /\ pc' = "UncaughtInGuardBefore"
              /\ UNCHANGED <<prompt_to_use, prompt_filtered, filtered_before,
                             triggered_before, triggered_after>>
         ELSE /\ prompt_to_use' = r.value
              /\ filtered_before' = r.filtered
              /\ IF prog = "auto_demo"
                 THEN /\ prompt_filtered' = run_demo_prompt_filtered(user_prompt, r.value)
                      /\ pc' = "PromptGuarded"
                      /\ UNCHANGED <<triggered_before, triggered_after>>
                 ELSE /\ UNCHANGED prompt_filtered
                      /\ IF r.value = Empty
                         THEN LET row == pretty_print_turn(user_prompt, r.value, Empty, Empty,
                                                           guard_before, FALSE) IN
                              /\ triggered_before' = row.before_triggered
                              /\ triggered_after' = row.after_triggered
                              /\ pc' = "FilteredBeforeGeneration"
                         ELSE /\ pc' = "PromptGuarded"
                              /\ UNCHANGED <<triggered_before, triggered_after>>
    /\ UNCHANGED <<prog, user_prompt, validator_types, guard_before, guard_after,
                   use_real_llm, baseline_output, output_after_guard, response_filtered,
                   oracle_log, filtered_after, fn>>

\* baseline_output = call_local_llm(prompt_to_use), or the response the operator
\* types in; interactive_demo then sets output_after_guard = baseline_output
Generate ==
    /\ IF guard_before THEN pc = "PromptGuarded" ELSE pc = "PromptReceived"
    /\ IF use_real_llm
       THEN \E outcome \in GenerationOutcomes :
                 LET r == call_local_llm(prog, outcome) IN
                 /\ oracle_log' = Append(oracle_log, [prompt |-> prompt_to_use,
                                                      outcome |-> outcome.kind])
                 /\ IF r.raised
                    THEN /\ pc' = "UncaughtInGenerate"
                         /\ UNCHANGED <<baseline_output, output_after_guard>>
                    ELSE /\ pc' = "Generated"
                         /\ baseline_output' = r.value
                         /\ IF prog = "manual_demo"
                            THEN output_after_guard' = r.value
                            ELSE UNCHANGED output_after_guard
       ELSE /\ \E simulated \in SampleTexts :
                 /\ baseline_output' = simulated
                 /\ output_after_guard' = simulated
            /\ pc' = "Generated"
            /\ UNCHANGED oracle_log
    /\ UNCHANGED <<prog, user_prompt, validator_types, guard_before, guard_after,
                   use_real_llm, prompt_to_use, prompt_filtered, response_filtered,
                   triggered_before, triggered_after, filtered_before, filtered_after, fn>>

\* if guard_after: the guard on baseline_output
GuardAfter ==
    /\ pc = "Generated"
    /\ guard_after
    /\ \E outcomes \in OutcomesFor(create_guard(prog, validator_types)), run_all \in BOOLEAN :
         LET r == apply_guard(prog, baseline_output, validator_types, outcomes, run_all) IN
         IF r.raised
         THEN /\ pc' = "UncaughtInGuardAfter"
              /\ UNCHANGED <<output_after_guard, response_filtered, filtered_after>>
         ELSE /\ pc' = "ResponseGuarded"
              /\ output_after_guard' = r.value
              /\ filtered_after' = r.filtered
              /\ IF prog = "auto_demo"
                 THEN response_filtered' = run_demo_response_filtered(baseline_output, r.value)
                 ELSE UNCHANGED response_filtered
    /\ UNCHANGED <<prog, user_prompt, validator_types, guard_before, guard_after,
                   use_real_llm, prompt_to_use, baseline_output, prompt_filtered,
                   triggered_before, triggered_after, oracle_log, filtered_before, fn>>

\* the summary table of the turn is printed
Report ==
    /\ IF guard_after THEN pc = "ResponseGuarded" ELSE pc = "Generated"
    /\ IF prog = "auto_demo"
       THEN /\ triggered_before' = prompt_filtered
            /\ triggered_after' = response_filtered
       ELSE LET row == pretty_print_turn(user_prompt, prompt_to_use, baseline_output,
                                         output_after_guard, guard_before, guard_after) IN
            /\ triggered_before' = row.before_triggered
            /\ triggered_after' = row.after_triggered
    /\ pc' = "Done"
    /\ UNCHANGED <<prog, user_prompt, validator_types, guard_before, guard_after,
                   use_real_llm, prompt_to_use, baseline_output, output_after_guard,
                   prompt_filtered, response_filtered, oracle_log, filtered_before,
                   filtered_after, fn>>

Next == ReadPrompt \/ Leave \/ GuardBefore \/ Generate \/ GuardAfter \/ Report

Spec == Init /\ [][Next]_vars

(***************************************************************************)
(* Direct calls of the screens, of create_guard and of apply_guard: the    *)
(* call and its arguments are drawn first, then the function runs.         *)
(***************************************************************************)
Call(op, p, text, types) ==
    [NoCallYet EXCEPT !.op = op, !.prog = p, !.text = text, !.validator_types = types]

Calls ==
    {Call("regex_banlist", "auto_demo", text, <<>>) : text \in ScreenTexts}
    \cup {Call("llm_safety", p, Empty, <<>>) : p \in Programs}
    \cup {Call(op, p, text, types) : op \in {"create_guard", "apply_guard"}, p \in Programs,
                                     text \in SampleTexts, types \in ValidatorTypeLists}

InitFn ==
    /\ prog = "auto_demo"
    /\ pc = "LoopHead"
    /\ validator_types = <<>>
    /\ guard_before = FALSE
    /\ guard_after = FALSE
    /\ use_real_llm = TRUE
    /\ TurnStart(Empty)
    /\ fn \in Calls

\* RegexBanList()._validate(text, {})
CallRegexBanList ==
    /\ fn.op = "regex_banlist"
    /\ fn' = [fn EXCEPT !.op = "regex_banlist_returned",
                        !.verdict = RegexBanList_validate(fn.text)]
    /\ UNCHANGED exchange_vars

\* LLMSafety()._validate(text, {})
CallLLMSafety ==
    /\ fn.op = "llm_safety"
    /\ \E outcome \in ClassifierOutcomes :
         fn' = [fn EXCEPT !.op = "llm_safety_returned",
                          !.outcomes = <<outcome>>,
                          !.verdict = LLMSafety_validate(fn.prog, outcome)]
    /\ UNCHANGED exchange_vars

\* create_guard(validator_types)
CallCreateGuard ==
    /\ fn.op = "create_guard"
    /\ fn' = [fn EXCEPT !.op = "create_guard_returned",
                        !.guard = create_guard(fn.prog, fn.validator_types)]
    /\ UNCHANGED exchange_vars

\* apply_guard(text, validator_types)
CallApplyGuard ==
    /\ fn.op = "apply_guard"
    /\ LET guard == create_guard(fn.prog, fn.validator_types) IN
       \E outcomes \in OutcomesFor(guard), run_all \in BOOLEAN :
          fn' = [fn EXCEPT !.op = "apply_guard_returned",
                           !.outcomes = outcomes,
                           !.guard = guard,
                           !.result = apply_guard(fn.prog, fn.text, fn.validator_types,
                                                  outcomes, run_all)]
    /\ UNCHANGED exchange_vars

\* apply_guard once more, with the same validator_types, on a text that the
\* first application returned as it was
CallApplyGuardAgain ==
    /\ fn.op = "apply_guard_returned"
    /\ ~fn.result.raised
    /\ fn.result.value = fn.text
    /\ \E outcomes \in OutcomesFor(fn.guard), run_all \in BOOLEAN :
         fn' = [fn EXCEPT !.op = "apply_guard_again_returned",
                          !.again = apply_guard(fn.prog, fn.result.value,
                                                fn.validator_types, outcomes, run_all)]
    /\ UNCHANGED exchange_vars

NextFn == CallRegexBanList \/ CallLLMSafety \/ CallCreateGuard \/ CallApplyGuard
            \/ CallApplyGuardAgain

SpecFn == InitFn /\ [][NextFn]_vars

(***************************************************************************)
(* Vocabulary of the properties, stated apart from the code above.         *)
(***************************************************************************)
Completed == pc \in {"Done", "FilteredBeforeGeneration"}

SameIgnoringCase(a, b) ==
    /\ Len(a) = Len(b)
    /\ \A i \in DOMAIN a : UpperChar(a[i]) = UpperChar(b[i])

\* w occurs in text as a substring, case-insensitively
OccursIgnoringCase(text, w) ==
    \E i \in DOMAIN text :
        /\ i + Len(w) - 1 <= Len(text)
        /\ SameIgnoringCase(SubSeq(text, i, i + Len(w) - 1), w)

\* the words of a text: its maximal runs of word characters
WordsOf(text) ==
    {SubSeq(text, ij[1], ij[2]) : ij \in
        {ij \in (DOMAIN text) \X (DOMAIN text) :
            /\ ij[1] <= ij[2]
            /\ \A k \in ij[1]..ij[2] : IsWordChar(text[k])
            /\ ~WordAt(text, ij[1] - 1)
            /\ ~WordAt(text, ij[2] + 1)}}

\* the whole words the two patterns ban: cat, cats, kitten, kittens
BannedWholeWords ==
    {compiled_patterns[k] : k \in DOMAIN compiled_patterns}
    \cup {compiled_patterns[k] \o LetterS : k \in DOMAIN compiled_patterns}

HasBannedWord(text) == \E k \in DOMAIN banned_words : OccursIgnoringCase(text, banned_words[k])
HasBannedWholeWord(text) ==
    \E w \in WordsOf(text), b \in BannedWholeWords : SameIgnoringCase(w, b)

\* the first banned word, in configured order, that occurs in the text
FirstBannedWord(text) ==
    banned_words[CHOOSE k \in DOMAIN banned_words :
        /\ OccursIgnoringCase(text, banned_words[k])
        /\ \A m \in 1..(k - 1) : ~OccursIgnoringCase(text, banned_words[m])]

\* the reply parses into the label SAFE: it arrived, and its first
\* whitespace-delimited token is SAFE in some letter case
IsSafeReply(outcome) ==
    /\ outcome.kind = "ok"
    /\ \E i \in DOMAIN outcome.response, j \in DOMAIN outcome.response :
         /\ i <= j
         /\ \A k \in 1..(i - 1) : IsSpace(outcome.response[k])
         /\ \A k \in i..j : ~IsSpace(outcome.response[k])
         /\ j = Len(outcome.response) \/ IsSpace(outcome.response[j + 1])
         /\ SameIgnoringCase(SubSeq(outcome.response, i, j), SAFE)

\* the requested list names something that is no screen kind
NamesUnrecognized(types) == \E i \in DOMAIN types : types[i] \notin {"regex", "llm"}

\* the verdicts the configured screens give on the text of an apply_guard call
VerdictAt(i) == run_validator(fn.prog, fn.guard[i], fn.text, fn.outcomes[i]).result

(***************************************************************************)
(* The claims.                                                             *)
(***************************************************************************)
\* C1: in an exchange with guard-before whose prompt the pipeline filtered, the
\* model is never called for generation, baseline_output and output_after_guard
\* are both the empty string, and the completed exchange reports the prompt as
\* filtered.
C1_FilteredPromptNeverGenerates ==
    (guard_before /\ filtered_before) =>
        /\ oracle_log = <<>>
        /\ baseline_output = Empty
        /\ output_after_guard = Empty
        /\ Completed => triggered_before

\* C2: when the call of the model for generation fails (it raises, or its reply
\* is malformed), the exchange goes on with baseline_output the empty string and
\* no exception leaves it.
C2_OracleFailureIsCaught ==
    (oracle_log # <<>> /\ oracle_log[1].outcome # "ok") =>
        /\ pc # "UncaughtInGenerate"
        /\ baseline_output = Empty

\* C3: a reply that does not parse into the label SAFE (empty, blank, another
\* first token, or a failed call) makes the text classifier fail, and makes a
\* pipeline that contains the classifier return the empty string; nothing is
\* raised out of the screen or out of the pipeline.
C3_UnparseableReplyFailsClosed ==
    /\ (fn.op = "llm_safety_returned" /\ ~IsSafeReply(fn.outcomes[1]))
          => fn.verdict.result = "fail"
    /\ (/\ fn.op = "apply_guard_returned"
        /\ \E i \in DOMAIN fn.guard :
              fn.guard[i] = "llm_safety" /\ ~IsSafeReply(fn.outcomes[i]))
          => (~fn.result.raised /\ fn.result.value = Empty)

\* C4: apply_guard returns the empty string when a configured screen fails on
\* the text and the text itself when every configured screen passes (so it is
\* the identity with no screen), and never anything else.
C4_FilterPolicy ==
    fn.op = "apply_guard_returned" =>
        /\ (\E i \in DOMAIN fn.guard : VerdictAt(i) = "fail")
              => (~fn.result.raised /\ fn.result.value = Empty)
        /\ (\A i \in DOMAIN fn.guard : VerdictAt(i) = "pass")
              => (~fn.result.raised /\ fn.result.value = fn.text)
        /\ ~fn.result.raised => fn.result.value \in {Empty, fn.text}

C6_PromptWasFiltered ==
    Completed => (triggered_before <=> (guard_before /\ prompt_to_use # user_prompt))

\* C6 witness: a completed exchange whose prompt the guard emptied
C6_Witness ==
    /\ Completed
    /\ guard_before
    /\ user_prompt # Empty
    /\ prompt_to_use = Empty
    /\ triggered_before

\* C7: in a completed exchange the "After LLM / Triggered" cell is true exactly
\* when guard-after is enabled and the guarded output differs from the baseline
\* output; when guard-after is enabled and the response failed a screen the
\* guarded output is empty and the cell is true; after Filtered-Before-Generation
\* the cell is false.
C7_ResponseWasFiltered ==
    Completed =>
        /\ triggered_after <=> (guard_after /\ output_after_guard # baseline_output)
        /\ (pc = "Done" /\ guard_after /\ filtered_after)
              => (output_after_guard = Empty /\ triggered_after)
        /\ pc = "FilteredBeforeGeneration" => ~triggered_after

\* C8: create_guard does not return a guard for a list that names something
\* other than a screen kind: the call is rejected.
C8_UnknownScreenRejected ==
    (fn.op = "create_guard_returned" /\ NamesUnrecognized(fn.validator_types))
        => fn.result.raised

C10_FilteredBeforeGenerationOnlyWhenEmptied ==
    pc = "FilteredBeforeGeneration" =>
        /\ guard_before
        /\ prompt_to_use = Empty
        /\ user_prompt # Empty

\* C11: in interactive_demo, whenever the model is called for generation the
\* prompt it receives is the prompt the user entered for that turn; after
\* guard-before it is never the empty prompt and never a rewritten one (the
\* guard blocks the turn or lets the prompt through as it was), and the model
\* is called at most once a turn.
C11_OracleGetsOriginalPrompt ==
    prog = "manual_demo" =>
        /\ Len(oracle_log) <= 1
        /\ \A k \in DOMAIN oracle_log :
              /\ oracle_log[k].prompt = user_prompt
              /\ guard_before => oracle_log[k].prompt # Empty

\* C11 witness: a turn of interactive_demo with guard-before and the classifier
\* in which the model was called with the whitespace-padded prompt as entered
C11_Witness ==
    /\ prog = "manual_demo"
    /\ guard_before
    /\ validator_types = <<"regex", "llm">>
    /\ user_prompt = Space \o Dog
    /\ oracle_log # <<>>
    /\ oracle_log[1].prompt = Space \o Dog

====
